---- MODULE Spec2Model ----
(***************************************************************************)
(* vSphere Template post-processor (post-processor/vsphere-template).      *)
(*                                                                         *)
(* The PostProcessor object is configured once (Configure) and is then     *)
(* handed artifacts (PostProcess).  PostProcess is modelled at the points  *)
(* where it blocks on the outside world: the artifact gate, the settling   *)
(* delay, the connection, every step of the multistep runner, the end of   *)
(* the runner and the deferred Logout.  The context passed to PostProcess  *)
(* can be cancelled by the caller at any moment.                           *)
(*                                                                         *)
(* Strings of the program are kept as strings; a nil pointer, a nil        *)
(* artifact and a nil error are the empty sequence, a non-nil value v is   *)
(* the one-element sequence <<v>>.                                         *)
(***************************************************************************)
EXTENDS Integers, Sequences, FiniteSets, TLC

VARIABLES
    config,        \* p.config after Configure (zero value before)
    url,           \* p.url: <<>> (nil) or <<endpoint>>
    configured,    \* "new" | "ok" | "failed": what Configure returned
    configureErr,  \* the entries of the error Configure returned
    datacenters,   \* datacenters present on the remote endpoint
    pc,            \* per invocation: position inside PostProcess
    ctx,           \* per invocation: TRUE once the context is cancelled
    artifact,      \* per invocation: <<>> or <<the artifact handed in>>
    bag,           \* per invocation: the multistep.BasicStateBag
    stepIdx,       \* per invocation: index of the runner's loop
    session,       \* per invocation: "none" | "open" | "closed"
    log,           \* per invocation: what the invocation has done so far
    result         \* per invocation: <<>> or <<values PostProcess returned>>

vars == <<config, url, configured, configureErr, datacenters,
          pc, ctx, artifact, bag, stepIdx, session, log, result>>

cfgVars == <<config, url, configured, configureErr>>
invVars == <<pc, ctx, artifact, bag, stepIdx, session, log, result>>

-----------------------------------------------------------------------------
(* Constants of the program *)

BuilderIdESX == "mitchellh.vmware-esx"
BuilderIdVspherePost == "packer.post-processor.vsphere"
BuilderIdVsphere == "jetbrains.vsphere"
BuilderIdArtifice == "packer.post-processor.artifice"

\* var builtins = map[string]string{...}
builtins ==
    [b \in {BuilderIdVspherePost, BuilderIdESX, BuilderIdVsphere, BuilderIdArtifice} |->
        IF b = BuilderIdVsphere THEN "vsphere"
        ELSE IF b = BuilderIdArtifice THEN "artifice"
        ELSE "vmware"]

-----------------------------------------------------------------------------
(* Input domains *)

\* producer identities handed to PostProcess: the allow-list and two others
BuilderIds == (DOMAIN builtins) \cup {"mitchellh.vmware"}
Formats == {"", "ovf"}
Flags == {"", "true", "false"}

AllArtifacts ==
    [builderId : BuilderIds, format : Formats, keepRegistered : Flags,
     skipExport : Flags, template : {FALSE}]

\* the artifacts handed to PostProcess: every combination of the three
\* metadata values from one producer, and from each other producer an
\* artifact without metadata and one that asks for an export
Artifacts ==
    {a \in AllArtifacts :
        \/ a.builderId = BuilderIdESX
        \/ a.format = "" /\ a.keepRegistered = "" /\ a.skipExport = ""
        \/ a.format = "ovf" /\ a.keepRegistered = "false" /\ a.skipExport = "false"}

\* hosts are sequences of characters: unset, a well-formed one, and one with
\* a character url.Parse rejects in a host name
Hosts == {<<>>, <<"v", "c">>, <<"v", " ">>}
Usernames == {"", "root"}
Passwords == {"", "secret"}
DatacenterNames == {"", "dc1"}
Folders == {"", "a/b"}
Trileans == {"unset", "true", "false"}
RemoteDatacenters == {{}, {"dc2"}, {"dc1", "dc2"}}

ZeroConfig ==
    [Host |-> <<>>, Username |-> "", Password |-> "", Datacenter |-> "",
     Folder |-> "", SnapshotEnable |-> FALSE, ReregisterVM |-> "unset"]

AllConfigs ==
    [Host : Hosts, Username : Usernames, Password : Passwords,
     Datacenter : DatacenterNames, Folder : Folders,
     SnapshotEnable : BOOLEAN, ReregisterVM : Trileans]

\* the configurations decoded by Configure: every combination of the
\* connection fields and of the datacenter, with the defaults of folder,
\* snapshot and reregister, each of them changed alone, and all changed
Configs ==
    {c \in AllConfigs :
        \/ c.Folder = "" /\ ~c.SnapshotEnable
        \/ c.Folder = "" /\ c.ReregisterVM = "unset"
        \/ ~c.SnapshotEnable /\ c.ReregisterVM = "unset"
        \/ c.Folder # "" /\ c.SnapshotEnable /\ c.ReregisterVM = "true"}

Invocations == DOMAIN pc

\* the invocations of the sequential pipeline: one artifact per invocation
InvocationIds == {1}

-----------------------------------------------------------------------------
(* Configure *)

RequiredKeys == {"host", "username", "password"}

\* the vc map of Configure: is the field behind the key empty
IsUnset(c, key) ==
    IF key = "host" THEN c.Host = <<>>
    ELSE IF key = "username" THEN c.Username = ""
    ELSE c.Password = ""

\* the orders in which `range vc` can visit the three keys
KeyOrders ==
    {o \in [1..3 -> RequiredKeys] : \A k \in RequiredKeys : \E n \in 1..3 : o[n] = k}

MustBeSet(key) == <<"must be set", key>>
InvalidEndpoint == <<"invalid vSphere sdk endpoint", "">>
DecodeError == <<"decode", "">>

RECURSIVE MissingFirst(_, _, _)
\* the loop stopping at the first empty field
MissingFirst(c, o, n) ==
    IF n > 3 THEN <<>>
    ELSE IF IsUnset(c, o[n]) THEN <<MustBeSet(o[n])>>
    ELSE MissingFirst(c, o, n + 1)

RECURSIVE MissingFrom(_, _, _)
\* the loop `for key, ptr := range vc`, visiting the keys in order o from n on
MissingFrom(c, o, n) ==
    IF n > 3 THEN <<>>
    ELSE (IF IsUnset(c, o[n]) THEN <<MustBeSet(o[n])>> ELSE <<>>)
         \o MissingFrom(c, o, n + 1)

\* url.Parse("https://" + host + "/sdk") fails on a blank in the host name
UrlParseOk(host) == \A n \in 1..Len(host) : host[n] # " "

\* the parsed endpoint with the credentials embedded (sdk.User = ...)
Endpoint(c) == [scheme |-> "https", host |-> c.Host, path |-> "/sdk",
                user |-> c.Username, password |-> c.Password]

ConfigureErrs(c, o) ==
    LET errs == MissingFrom(c, o, 1)
    IN  IF UrlParseOk(c.Host) THEN errs ELSE Append(errs, InvalidEndpoint)

Configure(decodeOk, c, o) ==
    /\ configured = "new"
    /\ IF ~decodeOk
       THEN /\ configureErr' = <<DecodeError>>
            /\ UNCHANGED <<config, url>>
       ELSE /\ config' = c
            /\ configureErr' = ConfigureErrs(c, o)
            /\ url' = IF UrlParseOk(c.Host) THEN <<Endpoint(c)>> ELSE url
    /\ configured' = IF configureErr' = <<>> THEN "ok" ELSE "failed"
    /\ UNCHANGED <<datacenters, invVars>>

-----------------------------------------------------------------------------
(* PostProcess: the artifact gate *)

\* the allow-list with the local VMware builder let through as well
IsBuiltinLocal(id) == id \in (DOMAIN builtins) \cup {"mitchellh.vmware"}

IsBuiltin(id) == id \in DOMAIN builtins

\* the export check taking an unset skip_export for "false"
ConflictingExportUnlessSkipped(f, k, s) == f # "" /\ k # "true" /\ s # "true"

\* the export check with the test of skip_export inverted
ConflictingExportSkipped(f, k, s) == f # "" /\ k # "true" /\ s = "true"

ConflictingExport(f, k, s) == f # "" /\ k # "true" /\ s = "false"

Error(kind, detail) == [kind |-> kind, detail |-> detail]

\* an error returned together with a "keep the artifact" flag
ErrResultKeeping(e) == [artifact |-> <<>>, keep |-> TRUE, force |-> FALSE, err |-> <<e>>]

\* return nil, false, false, err
ErrResult(e) == [artifact |-> <<>>, keep |-> FALSE, force |-> FALSE, err |-> <<e>>]
\* the artifact returned without the "force override" flag
OkResultNotForced(a) == [artifact |-> <<a>>, keep |-> TRUE, force |-> FALSE, err |-> <<>>]

\* return artifact, true, true, nil
OkResult(a) == [artifact |-> <<a>>, keep |-> TRUE, force |-> TRUE, err |-> <<>>]

\* the connection opened at once, without the settling delay
PostGatePcNoDelay == "connect"

\* where PostProcess goes on once the gate has let the artifact through
PostGatePc == "settle"

Return(i, r) ==
    /\ result' = [result EXCEPT ![i] = <<r>>]
    /\ pc' = [pc EXCEPT ![i] = "returned"]

\* PostProcess is called with artifact a (the build has configured the
\* post-processor without error before it hands it an artifact)
Begin(i, a) ==
    /\ configured = "ok"
    /\ pc[i] = "idle"
    /\ artifact' = [artifact EXCEPT ![i] = <<a>>]
    /\ IF ~IsBuiltin(a.builderId)
       THEN Return(i, ErrResult(Error("UnsupportedArtifact", a.builderId)))
       ELSE IF ConflictingExport(a.format, a.keepRegistered, a.skipExport)
       THEN Return(i, ErrResult(Error("ConflictingExportConfig", "")))
       ELSE /\ pc' = [pc EXCEPT ![i] = PostGatePc]
            /\ UNCHANGED result
    /\ UNCHANGED <<cfgVars, datacenters, ctx, bag, stepIdx, session, log>>

-----------------------------------------------------------------------------
(* PostProcess: settling delay, connection, state bag *)

Event(kind, arg) == <<kind, arg>>

Logged(i, evs) == log' = [log EXCEPT ![i] = log[i] \o evs]

\* how many events of a kind a log holds
Count(l, kind) == Len(SelectSeq(l, LAMBDA e : e[1] = kind))

EmptyBag == [k \in {} |-> ""]

\* BasicStateBag.Put
Put(b, k, v) == [x \in (DOMAIN b) \cup {k} |-> IF x = k THEN v ELSE b[x]]

\* BasicStateBag.GetOk: is the key present
HasKey(b, k) == k \in DOMAIN b

\* time.Sleep(10 * time.Second) returns
Settle(i) ==
    /\ pc[i] = "settle"
    /\ Logged(i, <<Event("settle", "10s")>>)
    /\ pc' = [pc EXCEPT ![i] = "connect"]
    /\ UNCHANGED <<cfgVars, datacenters, ctx, artifact, bag, stepIdx, session, result>>

\* state := new(BasicStateBag); state.Put("ui", ui); state.Put("client", c)
SeedBag == Put(Put(EmptyBag, "ui", "ui"), "client", "client")

\* the error of govmomi.NewClient not looked at: the run goes on without a
\* connection
ConnectUnchecked(i, ok) ==
    /\ pc[i] = "connect"
    /\ Logged(i, <<Event("connect", IF ok THEN "ok" ELSE "failed")>>)
    /\ session' = [session EXCEPT ![i] = IF ok THEN "open" ELSE @]
    /\ bag' = [bag EXCEPT ![i] = SeedBag]
    /\ stepIdx' = [stepIdx EXCEPT ![i] = 1]
    /\ pc' = [pc EXCEPT ![i] = "run"]
    /\ UNCHANGED <<cfgVars, datacenters, ctx, artifact, result>>

\* a failed govmomi.NewClient tried again instead of returned
ConnectRetrying(i, ok) ==
    /\ pc[i] = "connect"
    /\ Count(log[i], "connect") < 2
    /\ Logged(i, <<Event("connect", IF ok THEN "ok" ELSE "failed")>>)
    /\ IF ~ok
       THEN UNCHANGED <<pc, bag, stepIdx, session>>
       ELSE /\ session' = [session EXCEPT ![i] = "open"]
            /\ bag' = [bag EXCEPT ![i] = SeedBag]
            /\ stepIdx' = [stepIdx EXCEPT ![i] = 1]
            /\ pc' = [pc EXCEPT ![i] = "run"]
    /\ UNCHANGED <<cfgVars, datacenters, ctx, artifact, result>>

\* govmomi.NewClient returns: ok says whether the endpoint could be reached.
\* On success the Logout is deferred and the state bag is seeded.
Connect(i, ok) ==
    /\ pc[i] = "connect"
    /\ Logged(i, <<Event("connect", IF ok THEN "ok" ELSE "failed")>>)
    /\ IF ~ok
       THEN /\ Return(i, ErrResult(Error("ConnectionError", "")))
            /\ UNCHANGED <<bag, stepIdx, session>>
       ELSE /\ session' = [session EXCEPT ![i] = "open"]
            /\ bag' = [bag EXCEPT ![i] = SeedBag]
            /\ stepIdx' = [stepIdx EXCEPT ![i] = 1]
            /\ pc' = [pc EXCEPT ![i] = "run"]
            /\ UNCHANGED result
    /\ UNCHANGED <<cfgVars, datacenters, ctx, artifact>>

\* the caller cancels the context it passed to PostProcess
Cancel(i) ==
    /\ pc[i] \notin {"idle", "returned"}
    /\ ~ctx[i]
    /\ ctx' = [ctx EXCEPT ![i] = TRUE]
    /\ Logged(i, <<Event("cancel", "")>>)
    /\ UNCHANGED <<cfgVars, datacenters, pc, artifact, bag, stepIdx, session, result>>

-----------------------------------------------------------------------------
(* The four steps *)

\* the folder created before the datacenter is chosen
stepsFolderFirst == <<"CreateFolder", "ChooseDatacenter", "CreateSnapshot", "MarkAsTemplate">>

steps == <<"ChooseDatacenter", "CreateFolder", "CreateSnapshot", "MarkAsTemplate">>

StepOut(action, err, puts, calls, mark, failed) ==
    [action |-> action, err |-> err, puts |-> puts, calls |-> calls,
     mark |-> mark, failed |-> failed]

Continue(puts, calls, mark) == StepOut("Continue", <<>>, puts, calls, mark, FALSE)
Halt(kind, calls, failed) == StepOut("Halt", <<Error(kind, "")>>, <<>>, calls, FALSE, failed)

TheOne(S) == CHOOSE x \in S : TRUE

stepChooseDatacenter(c, dcs) ==
    IF c.Datacenter # ""
    THEN IF c.Datacenter \in dcs
         THEN Continue(<<<<"dcPath", c.Datacenter>>>>, <<"FindDatacenter">>, FALSE)
         ELSE Halt("NotFound", <<"FindDatacenter">>, FALSE)
    ELSE IF Cardinality(dcs) = 1
         THEN Continue(<<<<"dcPath", TheOne(dcs)>>>>, <<"DefaultDatacenter">>, FALSE)
         ELSE Halt("AmbiguousDatacenter", <<"DefaultDatacenter">>, FALSE)

stepCreateFolder(c, fault) ==
    IF c.Folder = "" THEN Continue(<<>>, <<>>, FALSE)
    ELSE IF fault THEN Halt("FolderCreationError", <<"CreateFolder">>, TRUE)
    ELSE Continue(<<<<"folder", c.Folder>>>>, <<"CreateFolder">>, FALSE)

stepCreateSnapshot(c, fault) ==
    IF ~c.SnapshotEnable THEN Continue(<<>>, <<>>, FALSE)
    ELSE IF fault THEN Halt("SnapshotError", <<"CreateSnapshot">>, TRUE)
    ELSE Continue(<<>>, <<"CreateSnapshot">>, FALSE)

stepMarkAsTemplate(c, fault) ==
    LET calls == IF c.ReregisterVM = "true"
                 THEN <<"Unregister", "RegisterAsTemplate">>
                 ELSE <<"MarkAsTemplate">>
    IN  IF fault THEN Halt("TemplateConversionError", calls, TRUE)
        ELSE Continue(<<>>, calls, TRUE)

\* Step.Run of the step called name; fault says whether its remote call fails
StepRun(name, c, dcs, fault) ==
    IF name = "ChooseDatacenter" THEN stepChooseDatacenter(c, dcs)
    ELSE IF name = "CreateFolder" THEN stepCreateFolder(c, fault)
    ELSE IF name = "CreateSnapshot" THEN stepCreateSnapshot(c, fault)
    ELSE stepMarkAsTemplate(c, fault)

RECURSIVE PutAll(_, _)
PutAll(b, puts) ==
    IF puts = <<>> THEN b
    ELSE PutAll(Put(b, Head(puts)[1], Head(puts)[2]), Tail(puts))

\* the state bag after the step has returned out
AfterStep(b, out) ==
    LET b1 == PutAll(b, out.puts)
    IN  IF out.err = <<>> THEN b1 ELSE Put(b1, "error", out.err[1])

-----------------------------------------------------------------------------
(* The runner *)

StateCancelled == "cancelled"
StateHalted == "halted"

\* the goroutine of Run that waits for ctx.Done() and marks the state bag
CancelWatch(i) ==
    /\ pc[i] \in {"run", "step", "unwind"}
    /\ ctx[i]
    /\ ~HasKey(bag[i], StateCancelled)
    /\ bag' = [bag EXCEPT ![i] = Put(bag[i], StateCancelled, "true")]
    /\ UNCHANGED <<cfgVars, datacenters, pc, ctx, artifact, stepIdx, session, log, result>>

\* top of the loop over the steps: the context is checked, then the step's
\* cleanup is deferred and the step is started
StepStart(i) ==
    /\ pc[i] = "run"
    /\ IF ctx[i]
       THEN /\ bag' = [bag EXCEPT ![i] = Put(bag[i], StateCancelled, "true")]
            /\ pc' = [pc EXCEPT ![i] = "unwind"]
            /\ UNCHANGED log
       ELSE /\ Logged(i, <<Event("run", steps[stepIdx[i]])>>)
            /\ pc' = [pc EXCEPT ![i] = "step"]
            /\ UNCHANGED bag
    /\ UNCHANGED <<cfgVars, datacenters, ctx, artifact, stepIdx, session, result>>

CallEvents(calls) == [n \in 1..Len(calls) |-> Event("remote", calls[n])]

\* the running step returns; the runner looks at the state bag and at the
\* step's action and goes on with the next step or leaves the loop
StepEnd(i, fault) ==
    /\ pc[i] = "step"
    /\ LET name == steps[stepIdx[i]]
           out == StepRun(name, config, datacenters, fault)
           b1 == AfterStep(bag[i], out)
           cancelled == HasKey(b1, StateCancelled)
           halted == out.action = "Halt"
           b2 == IF ~cancelled /\ halted THEN Put(b1, StateHalted, "true") ELSE b1
           stop == cancelled \/ halted \/ stepIdx[i] = Len(steps)
       IN  /\ bag' = [bag EXCEPT ![i] = b2]
           /\ artifact' = IF out.mark
                          THEN [artifact EXCEPT ![i] = <<[artifact[i][1] EXCEPT !.template = TRUE]>>]
                          ELSE artifact
           /\ Logged(i, CallEvents(out.calls)
                        \o (IF out.failed THEN <<Event("fault", name)>> ELSE <<>>)
                        \o <<Event(out.action, name)>>)
           /\ pc' = [pc EXCEPT ![i] = IF stop THEN "unwind" ELSE "run"]
           /\ stepIdx' = [stepIdx EXCEPT ![i] = IF stop THEN @ ELSE @ + 1]
    /\ UNCHANGED <<cfgVars, datacenters, ctx, session, result>>

\* the steps whose Run was called, in the order of the calls
Started(l) == SelectSeq(l, LAMBDA e : e[1] = "run")

Reverse(q) == [n \in 1..Len(q) |-> q[Len(q) + 1 - n]]

\* the cleanups run in the order in which the steps were started
CleanupEventsForward(l) ==
    LET st == Started(l)
    IN  [n \in 1..Len(st) |-> Event("cleanup", st[n][2])]

\* the deferred step.Cleanup calls of Run, last deferred first
CleanupEvents(l) ==
    LET st == Reverse(Started(l))
    IN  [n \in 1..Len(st) |-> Event("cleanup", st[n][2])]

\* a cancelled run returned as an error as well
RunResultCancelAware(b, a) ==
    IF HasKey(b, "error") THEN ErrResult(b["error"])
    ELSE IF HasKey(b, StateCancelled) THEN ErrResult(Error("Cancelled", ""))
    ELSE OkResult(a)

\* the "error" key of the state bag not looked at
RunResultIgnoringError(b, a) == OkResult(a)

\* Logout called on the way out of a successful run only
AfterRunPcOnSuccess(b) == IF HasKey(b, "error") THEN "returned" ELSE "logout"

\* defer p.Logout(c): every return after the connection runs Logout first
AfterRunPc(b) == "logout"

\* what PostProcess returns once runner.Run has returned
RunResult(b, a) ==
    IF HasKey(b, "error") THEN ErrResult(b["error"]) ELSE OkResult(a)

\* one state bag kept in the post-processor and used by every invocation: an
\* "error" put by any invocation is found by all of them
SharedBag(i) ==
    LET failed == {j \in Invocations : HasKey(bag[j], "error")}
    IN  IF failed = {} THEN bag[i] ELSE bag[CHOOSE j \in failed : TRUE]

RunnerReturnSharedBag(i) ==
    /\ pc[i] = "unwind"
    /\ Logged(i, CleanupEvents(log[i]))
    /\ result' = [result EXCEPT ![i] = <<RunResult(SharedBag(i), artifact[i][1])>>]
    /\ pc' = [pc EXCEPT ![i] = AfterRunPc(bag[i])]
    /\ UNCHANGED <<cfgVars, datacenters, ctx, artifact, bag, stepIdx, session>>

\* runner.Run returns (its deferred cleanups run), PostProcess reads the
\* "error" key and fixes its return values
RunnerReturn(i) ==
    /\ pc[i] = "unwind"
    /\ Logged(i, CleanupEvents(log[i]))
    /\ result' = [result EXCEPT ![i] = <<RunResult(bag[i], artifact[i][1])>>]
    /\ pc' = [pc EXCEPT ![i] = AfterRunPc(bag[i])]
    /\ UNCHANGED <<cfgVars, datacenters, ctx, artifact, bag, stepIdx, session>>

\* the error of c.Logout returned in place of the outcome of the run
LogoutOverriding(i, ok) ==
    /\ pc[i] = "logout"
    /\ Logged(i, <<Event("logout", IF ok THEN "ok" ELSE "failed")>>)
    /\ session' = [session EXCEPT ![i] = "closed"]
    /\ pc' = [pc EXCEPT ![i] = "returned"]
    /\ result' = IF ok THEN result
                 ELSE [result EXCEPT ![i] = <<ErrResult(Error("LogoutError", ""))>>]
    /\ UNCHANGED <<cfgVars, datacenters, ctx, artifact, bag, stepIdx>>

\* p.Logout(c) called where it is written instead of deferred: the session
\* is closed before the runner starts
LogoutNotDeferred(i, ok) ==
    /\ pc[i] = "run"
    /\ stepIdx[i] = 1
    /\ session[i] = "open"
    /\ Logged(i, <<Event("logout", IF ok THEN "ok" ELSE "failed")>>)
    /\ session' = [session EXCEPT ![i] = "closed"]
    /\ UNCHANGED <<cfgVars, datacenters, pc, ctx, artifact, bag, stepIdx, result>>

\* the deferred p.Logout(c): the error of c.Logout is dropped
Logout(i, ok) ==
    /\ pc[i] = "logout"
    /\ Logged(i, <<Event("logout", IF ok THEN "ok" ELSE "failed")>>)
    /\ session' = [session EXCEPT ![i] = "closed"]
    /\ pc' = [pc EXCEPT ![i] = "returned"]
    /\ UNCHANGED <<cfgVars, datacenters, ctx, artifact, bag, stepIdx, result>>

-----------------------------------------------------------------------------
(* Specification *)

Init ==
    /\ config = ZeroConfig
    /\ url = <<>>
    /\ configured = "new"
    /\ configureErr = <<>>
    /\ datacenters \in RemoteDatacenters
    /\ pc = [i \in InvocationIds |-> "idle"]
    /\ ctx = [i \in InvocationIds |-> FALSE]
    /\ artifact = [i \in InvocationIds |-> <<>>]
    /\ bag = [i \in InvocationIds |-> EmptyBag]
    /\ stepIdx = [i \in InvocationIds |-> 0]
    /\ session = [i \in InvocationIds |-> "none"]
    /\ log = [i \in InvocationIds |-> <<>>]
    /\ result = [i \in InvocationIds |-> <<>>]

Next ==
    \/ \E d \in BOOLEAN, c \in Configs, o \in KeyOrders : Configure(d, c, o)
    \/ \E i \in Invocations, a \in Artifacts : Begin(i, a)
    \/ \E i \in Invocations : Settle(i)
    \/ \E i \in Invocations, ok \in BOOLEAN : Connect(i, ok)
    \/ \E i \in Invocations : Cancel(i)
    \/ \E i \in Invocations : CancelWatch(i)
    \/ \E i \in Invocations : StepStart(i)
    \/ \E i \in Invocations, fault \in BOOLEAN : StepEnd(i, fault)
    \/ \E i \in Invocations : RunnerReturn(i)
    \/ \E i \in Invocations, ok \in BOOLEAN : Logout(i, ok)

Spec == Init /\ [][Next]_vars

\* every started call of PostProcess runs on: the sleep ends, the remote
\* calls return, the runner and the deferred Logout are executed
Progress(i) ==
    \/ Settle(i)
    \/ \E ok \in BOOLEAN : Connect(i, ok)
    \/ StepStart(i)
    \/ \E fault \in BOOLEAN : StepEnd(i, fault)
    \/ RunnerReturn(i)
    \/ \E ok \in BOOLEAN : Logout(i, ok)

FairSpec == Spec /\ \A i \in InvocationIds : WF_vars(Progress(i))

-----------------------------------------------------------------------------
(* Two invocations of PostProcess on one post-processor, running concurrently *)

ConcInvocationIds == {1, 2}

\* the configurations of the concurrent runs: the defaults, and folder,
\* snapshot and reregister all set
ConcConfigs ==
    {c \in Configs :
        /\ c.Host = <<"v", "c">> /\ c.Username = "root" /\ c.Password = "secret"
        /\ c.Datacenter = ""
        /\ \/ c.Folder = "" /\ ~c.SnapshotEnable /\ c.ReregisterVM = "unset"
           \/ c.Folder # "" /\ c.SnapshotEnable /\ c.ReregisterVM = "true"}

\* the artifacts of the concurrent runs: one the gate lets through, one with
\* a conflicting export and one from a producer that is not allowed
ConcArtifacts ==
    {a \in Artifacts :
        /\ a.builderId \in {BuilderIdESX, "mitchellh.vmware"}
        /\ \/ a.format = "" /\ a.keepRegistered = "" /\ a.skipExport = ""
           \/ a.builderId = BuilderIdESX /\ a.format = "ovf"
              /\ a.keepRegistered = "false" /\ a.skipExport = "false"}

ConcInit ==
    /\ config = ZeroConfig
    /\ url = <<>>
    /\ configured = "new"
    /\ configureErr = <<>>
    /\ datacenters = {"dc2"}
    /\ pc = [i \in ConcInvocationIds |-> "idle"]
    /\ ctx = [i \in ConcInvocationIds |-> FALSE]
    /\ artifact = [i \in ConcInvocationIds |-> <<>>]
    /\ bag = [i \in ConcInvocationIds |-> EmptyBag]
    /\ stepIdx = [i \in ConcInvocationIds |-> 0]
    /\ session = [i \in ConcInvocationIds |-> "none"]
    /\ log = [i \in ConcInvocationIds |-> <<>>]
    /\ result = [i \in ConcInvocationIds |-> <<>>]

ConcNext ==
    \/ \E d \in BOOLEAN, c \in ConcConfigs, o \in KeyOrders : Configure(d, c, o)
    \/ \E i \in Invocations, a \in ConcArtifacts : Begin(i, a)
    \/ \E i \in Invocations : Settle(i)
    \/ \E i \in Invocations, ok \in BOOLEAN : Connect(i, ok)
    \/ \E i \in Invocations : Cancel(i)
    \/ \E i \in Invocations : CancelWatch(i)
    \/ \E i \in Invocations : StepStart(i)
    \/ \E i \in Invocations, fault \in BOOLEAN : StepEnd(i, fault)
    \/ \E i \in Invocations : RunnerReturn(i)
    \/ \E i \in Invocations, ok \in BOOLEAN : Logout(i, ok)

ConcSpec == ConcInit /\ [][ConcNext]_vars

-----------------------------------------------------------------------------
(* Vocabulary of the properties *)

Returned(i) == pc[i] = "returned"
Res(i) == result[i][1]
Art(i) == artifact[i][1]

Positions(l, kind) == {n \in 1..Len(l) : l[n][1] = kind}
Has(l, ev) == \E n \in 1..Len(l) : l[n] = ev

\* the producer of the artifact is on the allow-list
Allowed(a) == a.builderId \in DOMAIN builtins
\* the artifact asks for an export of a VM that is not kept registered
Conflicting(a) == a.format # "" /\ a.keepRegistered # "true" /\ a.skipExport = "false"

Failure(r, e) == r = [artifact |-> <<>>, keep |-> FALSE, force |-> FALSE, err |-> <<e>>]
Success(r, a) == r = [artifact |-> <<a>>, keep |-> TRUE, force |-> TRUE, err |-> <<>>]

StepOrder == <<"ChooseDatacenter", "CreateFolder", "CreateSnapshot", "MarkAsTemplate">>
IndexOf(name) == CHOOSE k \in 1..4 : StepOrder[k] = name

-----------------------------------------------------------------------------
(* C1 *)

\* C1: an artifact whose BuilderId is not on the allow-list makes PostProcess
\* return the UnsupportedArtifact error naming that BuilderId, and that
\* invocation does nothing else: no settling delay, no connect, no step, no
\* logout, no session.
C1_UnsupportedArtifact ==
    \A i \in Invocations :
        (artifact[i] # <<>> /\ ~Allowed(Art(i))) =>
            /\ Returned(i)
            /\ Failure(Res(i), [kind |-> "UnsupportedArtifact", detail |-> Art(i).builderId])
            /\ log[i] = <<>>
            /\ session[i] = "none"
            /\ bag[i] = EmptyBag

C1_Witness ==
    \E i \in Invocations :
        /\ Returned(i)
        /\ Art(i).builderId = "mitchellh.vmware"
        /\ result[i] # <<>>
        /\ Res(i).err[1].kind = "UnsupportedArtifact"

-----------------------------------------------------------------------------
(* C2 *)

\* C2: an artifact from an allowed producer with a non-empty export format,
\* keep_registered other than "true" and skip_export "false" makes
\* PostProcess return ConflictingExportConfig before anything is done towards
\* a connection.
C2_ConflictingExport ==
    \A i \in Invocations :
        (artifact[i] # <<>> /\ Allowed(Art(i)) /\ Conflicting(Art(i))) =>
            /\ Returned(i)
            /\ Failure(Res(i), [kind |-> "ConflictingExportConfig", detail |-> ""])
            /\ log[i] = <<>>
            /\ session[i] = "none"

C2_Witness ==
    \E i \in Invocations :
        /\ Returned(i)
        /\ Allowed(Art(i))
        /\ Art(i).format = "ovf" /\ Art(i).keepRegistered = "" /\ Art(i).skipExport = "false"
        /\ Res(i).err[1].kind = "ConflictingExportConfig"

-----------------------------------------------------------------------------
(* C3 *)

Connected(i) == Has(log[i], Event("connect", "ok"))

\* C3 as stated: every invocation that has returned has logged out exactly
\* once, whatever its outcome.
C3_LogoutOnEveryExit ==
    \A i \in Invocations : Returned(i) => Count(log[i], "logout") = 1

\* C3 amended: Logout is never called twice; an invocation that opened a
\* session has called it exactly once when it returns (success, step failure
\* or cancellation alike), after the session was opened; an invocation that
\* returns without a session (artifact rejected, connect failed) never calls
\* it.
C3_LogoutOncePerSession ==
    \A i \in Invocations :
        /\ Count(log[i], "logout") <= 1
        /\ Returned(i) => Count(log[i], "logout") = (IF Connected(i) THEN 1 ELSE 0)
        /\ \A n \in Positions(log[i], "logout") :
               \E m \in 1..(n - 1) : log[i][m] = Event("connect", "ok")
        /\ (Connected(i) /\ ~Returned(i)) => session[i] = "open"
        /\ (Connected(i) /\ Returned(i)) => session[i] = "closed"

C3_Witness ==
    \E i \in Invocations :
        /\ Returned(i)
        /\ HasKey(bag[i], "error")
        /\ HasKey(bag[i], StateCancelled)
        /\ Count(log[i], "logout") = 1

-----------------------------------------------------------------------------
(* C4 *)

\* C4: a step fails by halting with the "error" key set.  After the failing
\* step no step is started and no remote call is made, Logout is called
\* exactly once by the time PostProcess returns, and PostProcess returns the
\* error of the state bag with no artifact and both booleans false.
C4_StepFailure ==
    \A i \in Invocations :
        /\ HasKey(bag[i], "error") <=> Positions(log[i], "Halt") # {}
        /\ \A h \in Positions(log[i], "Halt") :
               \A n \in (h + 1)..Len(log[i]) :
                   log[i][n][1] \notin {"run", "remote", "Continue", "Halt"}
        /\ HasKey(bag[i], "error") => Count(log[i], "logout") <= 1
        /\ (Returned(i) /\ HasKey(bag[i], "error")) =>
               /\ Count(log[i], "logout") = 1
               /\ Failure(Res(i), bag[i]["error"])

C4_Witness ==
    \E i \in Invocations :
        /\ Returned(i)
        /\ Has(log[i], Event("Halt", "CreateFolder"))
        /\ Count(log[i], "run") = 2
        /\ Res(i).err = <<[kind |-> "FolderCreationError", detail |-> ""]>>

-----------------------------------------------------------------------------
(* C5 *)

\* C5: whatever PostProcess returns is either an error with no artifact and
\* both booleans false, or no error with the artifact it was handed and both
\* booleans true; a returned invocation has returned one of the two.
C5_NoPartialSuccess ==
    \A i \in Invocations :
        /\ Returned(i) => result[i] # <<>>
        /\ result[i] # <<>> =>
               \/ /\ Res(i).err # <<>>
                  /\ Res(i).artifact = <<>>
                  /\ ~Res(i).keep /\ ~Res(i).force
               \/ /\ Res(i).err = <<>>
                  /\ Res(i).artifact = artifact[i]
                  /\ Res(i).keep /\ Res(i).force

C5_Witness ==
    \E i \in Invocations :
        /\ Returned(i)
        /\ Has(log[i], Event("Continue", "CreateSnapshot"))
        /\ Res(i).err = <<[kind |-> "TemplateConversionError", detail |-> ""]>>
        /\ Res(i).artifact = <<>>

-----------------------------------------------------------------------------
(* C6 *)

\* C6: once the context is cancelled no further step is started (a step in
\* flight runs to its end), and an invocation whose runner was stopped by the
\* cancellation before all steps had been started does not return a success:
\* it returns an error with no artifact.
C6_CancelledOutcome ==
    \A i \in Invocations :
        /\ \A c \in Positions(log[i], "cancel") :
               \A n \in (c + 1)..Len(log[i]) : log[i][n][1] # "run"
        /\ (/\ Returned(i)
            /\ HasKey(bag[i], StateCancelled)
            /\ Count(log[i], "run") < Len(StepOrder)) =>
               /\ Res(i).err # <<>>
               /\ Res(i).artifact = <<>>

-----------------------------------------------------------------------------
(* C7 *)

ValidArtifact(i) == artifact[i] # <<>> /\ Allowed(Art(i)) /\ ~Conflicting(Art(i))

\* the endpoint was reached and none of its remote calls failed
Reachable(i) == Connected(i) /\ Count(log[i], "fault") = 0

\* the scenario of the end-to-end sentence
EndToEndScenario(i) ==
    /\ ValidArtifact(i)
    /\ Reachable(i)
    /\ Cardinality(datacenters) = 1
    /\ config.Folder = ""
    /\ ~config.SnapshotEnable
    /\ config.ReregisterVM = "unset"
    /\ ~ctx[i]

\* the artifact handed in, marked as template, both booleans true, no error
MarkedSuccess(i) ==
    /\ Art(i).template
    /\ Success(Res(i), Art(i))

-----------------------------------------------------------------------------
(* C8 *)

\* C8: the steps are started in the order ChooseDatacenter, CreateFolder,
\* CreateSnapshot, MarkAsTemplate, each at most once; when a step is started
\* every step before it has returned Continue, and the step started before
\* it is no longer running.
C8_StepOrder ==
    \A i \in Invocations :
        LET st == Started(log[i])
        IN  /\ Len(st) <= Len(StepOrder)
            /\ \A n \in 1..Len(st) : st[n][2] = StepOrder[n]
            /\ \A n \in Positions(log[i], "run") :
                   \A k \in 1..(IndexOf(log[i][n][2]) - 1) :
                       \E m \in 1..(n - 1) : log[i][m] = Event("Continue", StepOrder[k])
            /\ \A n \in Positions(log[i], "Continue") \cup Positions(log[i], "Halt") :
                   \E m \in 1..(n - 1) :
                       /\ log[i][m] = Event("run", log[i][n][2])
                       /\ \A q \in (m + 1)..(n - 1) : log[i][q][1] # "run"

C8_Witness ==
    \E i \in Invocations :
        /\ Count(log[i], "run") = 4
        /\ Has(log[i], Event("Continue", "MarkAsTemplate"))
        /\ Has(log[i], Event("remote", "CreateSnapshot"))

-----------------------------------------------------------------------------
(* C9 *)

Missing(c) ==
    (IF c.Host = <<>> THEN {"host"} ELSE {})
    \cup (IF c.Username = "" THEN {"username"} ELSE {})
    \cup (IF c.Password = "" THEN {"password"} ELSE {})

WellFormed(host) == \A n \in 1..Len(host) : host[n] # " "

Entries(errs) == {errs[n] : n \in 1..Len(errs)}

\* C9: when Configure has decoded its input, the error it returns has exactly
\* one entry "must be set" for each of host, username and password that is
\* empty (all of them, in any order), plus one entry for a malformed
\* endpoint; it returns no error exactly when nothing is missing and the
\* endpoint is well formed; and nothing has been done towards a connection
\* unless Configure has returned without error.
C9_ConfigureAggregates ==
    /\ configured = "new" => configureErr = <<>>
    /\ (configured # "new" /\ configureErr # <<DecodeError>>) =>
           /\ Entries(configureErr) =
                  {<<"must be set", k>> : k \in Missing(config)}
                  \cup (IF WellFormed(config.Host) THEN {}
                        ELSE {<<"invalid vSphere sdk endpoint", "">>})
           /\ Len(configureErr) =
                  Cardinality(Missing(config)) + (IF WellFormed(config.Host) THEN 0 ELSE 1)
           /\ configured = "ok" <=> (Missing(config) = {} /\ WellFormed(config.Host))
    /\ configured = "ok" <=> (configured # "new" /\ configureErr = <<>>)
    /\ configured = "ok" => url = <<Endpoint(config)>>
    /\ configured # "ok" =>
           \A i \in Invocations : log[i] = <<>> /\ session[i] = "none" /\ pc[i] = "idle"

C9_Witness ==
    /\ configured = "failed"
    /\ Len(configureErr) = 3
    /\ config.Username = "" /\ config.Password = ""
    /\ ~WellFormed(config.Host)

-----------------------------------------------------------------------------
(* C10 *)

\* C10: whatever an invocation does after the gate (connect, start a step,
\* make a remote call, log out) it does after its settling delay has
\* elapsed, and the delay elapses once.
C10_SettleFirst ==
    \A i \in Invocations :
        /\ Count(log[i], "settle") <= 1
        /\ \A n \in 1..Len(log[i]) :
               log[i][n][1] \in {"connect", "run", "remote", "Continue", "Halt", "logout"} =>
                   \E m \in 1..(n - 1) : log[i][m] = Event("settle", "10s")
        /\ (session[i] # "none" \/ bag[i] # EmptyBag) => Has(log[i], Event("settle", "10s"))

C10_Witness ==
    \E i \in Invocations :
        /\ pc[i] = "step"
        /\ stepIdx[i] = 1
        /\ Has(log[i], Event("settle", "10s"))
        /\ Has(log[i], Event("run", "ChooseDatacenter"))

-----------------------------------------------------------------------------
(* C11 *)

\* C11: the values PostProcess returns are fixed before the deferred Logout
\* runs, and the Logout, whether it succeeds or fails, leaves them as they
\* are: a step of an invocation that stands before its Logout never changes
\* that invocation's result.
C11_LogoutKeepsOutcome ==
    [][\A i \in Invocations :
          pc[i] = "logout" => (result[i] # <<>> /\ result'[i] = result[i])]_vars

C11_Witness ==
    \E i \in Invocations :
        /\ Returned(i)
        /\ Has(log[i], Event("logout", "failed"))
        /\ Has(log[i], Event("Continue", "MarkAsTemplate"))
        /\ Success(Res(i), Art(i))

-----------------------------------------------------------------------------
(* C12 *)

\* C12: when connect fails PostProcess returns ConnectionError with no
\* artifact and both booleans false; that invocation has no state bag, no
\* session, starts no step, makes no remote call and does not log out.
C12_ConnectFailure ==
    \A i \in Invocations :
        Has(log[i], Event("connect", "failed")) =>
            /\ Returned(i)
            /\ Failure(Res(i), [kind |-> "ConnectionError", detail |-> ""])
            /\ bag[i] = EmptyBag
            /\ session[i] = "none"
            /\ stepIdx[i] = 0
            /\ \A n \in 1..Len(log[i]) :
                   log[i][n][1] \notin {"run", "remote", "Continue", "Halt", "cleanup", "logout"}

C12_Witness ==
    \E i \in Invocations :
        /\ Returned(i)
        /\ Has(log[i], Event("connect", "failed"))
        /\ Res(i).err = <<[kind |-> "ConnectionError", detail |-> ""]>>

-----------------------------------------------------------------------------
(* C13 *)

\* the cleanup hooks called so far, in the order of the calls
Cleaned(l) == SelectSeq(l, LAMBDA e : e[1] = "cleanup")

\* C13: after a step has halted no step is started; no cleanup hook is
\* called while the loop over the steps is running; once the runner has
\* returned, the cleanup hooks called are those of the steps that were
\* started, each once, in the reverse of the order in which the steps were
\* started, and no hook of a step that was not started is called.
C13_CleanupLifo ==
    \A i \in Invocations :
        LET st == Started(log[i])
            cl == Cleaned(log[i])
        IN  /\ \A h \in Positions(log[i], "Halt") :
                   \A n \in (h + 1)..Len(log[i]) : log[i][n][1] # "run"
            /\ pc[i] \in {"idle", "settle", "connect", "run", "step", "unwind"} => cl = <<>>
            /\ (pc[i] \in {"logout", "returned"} /\ Connected(i)) =>
                   /\ Len(cl) = Len(st)
                   /\ \A n \in 1..Len(cl) : cl[n][2] = st[Len(st) + 1 - n][2]
            /\ \A n \in Positions(log[i], "cleanup") :
                   \A m \in (n + 1)..Len(log[i]) :
                       log[i][m][1] \notin {"run", "remote", "Continue", "Halt"}

C13_Witness ==
    \E i \in Invocations :
        /\ Has(log[i], Event("Halt", "CreateSnapshot"))
        /\ Cleaned(log[i]) = <<Event("cleanup", "CreateSnapshot"),
                               Event("cleanup", "CreateFolder"),
                               Event("cleanup", "ChooseDatacenter")>>

-----------------------------------------------------------------------------
(* C15 *)

RemoteCalls ==
    {"FindDatacenter", "DefaultDatacenter", "CreateFolder", "CreateSnapshot",
     "Unregister", "RegisterAsTemplate", "MarkAsTemplate"}

Occurrences(l, ev) == Cardinality({n \in 1..Len(l) : l[n] = ev})

\* C15: within one invocation connect is attempted at most once, each of the
\* four steps is started at most once and each remote call is issued at most
\* once; after a failed connect, a halted step or a failed remote call
\* nothing is attempted again: no connect, no step and no remote call
\* follows.
C15_SingleAttempt ==
    \A i \in Invocations :
        /\ Count(log[i], "connect") <= 1
        /\ \A k \in 1..Len(StepOrder) : Occurrences(log[i], Event("run", StepOrder[k])) <= 1
        /\ \A c \in RemoteCalls : Occurrences(log[i], Event("remote", c)) <= 1
        /\ \A n \in 1..Len(log[i]) :
               (log[i][n] = Event("connect", "failed") \/ log[i][n][1] \in {"Halt", "fault"}) =>
                   \A m \in (n + 1)..Len(log[i]) :
                       log[i][m][1] \notin {"connect", "run", "remote"}

C15_Witness ==
    \E i \in Invocations :
        /\ Returned(i)
        /\ Has(log[i], Event("fault", "CreateSnapshot"))
        /\ Count(log[i], "run") = 3
        /\ Count(log[i], "connect") = 1

-----------------------------------------------------------------------------
(* C16 *)

\* C16: a Logout is preceded by the successful connect of its invocation and
\* by everything the runner does (steps, remote calls, cleanups); after it
\* the invocation does nothing on the session; it has happened when an
\* invocation that opened a session returns; the session is open exactly from
\* the connect to the Logout, and an invocation opens at most one session.
C16_SessionLifecycle ==
    \A i \in Invocations :
        /\ Occurrences(log[i], Event("connect", "ok")) <= 1
        /\ Count(log[i], "logout") <= 1
        /\ \A n \in Positions(log[i], "logout") :
               /\ \E m \in 1..(n - 1) : log[i][m] = Event("connect", "ok")
               /\ \A m \in (n + 1)..Len(log[i]) : log[i][m][1] = "cancel"
               /\ Count(log[i], "cleanup") = Count(log[i], "run")
        /\ \A n \in 1..Len(log[i]) :
               log[i][n][1] \in {"run", "remote", "Continue", "Halt", "cleanup"} =>
                   \E m \in 1..(n - 1) : log[i][m] = Event("connect", "ok")
        /\ session[i] = "open" <=> (Connected(i) /\ Count(log[i], "logout") = 0)
        /\ session[i] = "closed" <=> Count(log[i], "logout") = 1
        /\ pc[i] \in {"run", "step", "unwind", "logout"} => session[i] = "open"
        /\ Returned(i) => session[i] # "open"

C16_Witness ==
    \E i \in Invocations :
        /\ Returned(i)
        /\ session[i] = "closed"
        /\ Count(log[i], "cleanup") = 4
        /\ log[i][Len(log[i])][1] = "logout"

-----------------------------------------------------------------------------
(* C17 *)

\* C17: an invocation whose runner has returned has fixed its result by the
\* "error" key alone: with the key it is the error of the key, no artifact
\* and both booleans false; without the key it is the artifact with both
\* booleans true and no error, also when the runner was stopped by a
\* cancellation before all steps were started.
C17_ErrorKeyDecides ==
    \A i \in Invocations :
        (pc[i] \in {"logout", "returned"} /\ Connected(i)) =>
            /\ result[i] # <<>>
            /\ Res(i).err # <<>> <=> HasKey(bag[i], "error")
            /\ HasKey(bag[i], "error") => Failure(Res(i), bag[i]["error"])
            /\ ~HasKey(bag[i], "error") => Success(Res(i), Art(i))

C17_Witness ==
    \E i \in Invocations :
        /\ Returned(i)
        /\ HasKey(bag[i], StateCancelled)
        /\ ~HasKey(bag[i], "error")
        /\ Count(log[i], "run") = 1
        /\ Success(Res(i), Art(i))

-----------------------------------------------------------------------------
(* C18 *)

\* the gate has turned the artifact of invocation i down
Rejected(i) == Returned(i) /\ log[i] = <<>>

\* C18: an artifact from an allowed producer is turned down by the gate
\* exactly when its export format is non-empty, keep_registered is not
\* "true" and skip_export is "false", and then with ConflictingExportConfig;
\* every other artifact from an allowed producer goes on to the settling
\* delay.
C18_GateExact ==
    \A i \in Invocations :
        (artifact[i] # <<>> /\ Allowed(Art(i))) =>
            /\ Rejected(i) <=> Conflicting(Art(i))
            /\ Rejected(i) => Failure(Res(i), [kind |-> "ConflictingExportConfig", detail |-> ""])
            /\ ~Conflicting(Art(i)) => (pc[i] # "idle" /\ (Returned(i) => Connected(i) \/ Has(log[i], Event("connect", "failed"))))

C18_Witness ==
    \E i \in Invocations :
        /\ pc[i] = "connect"
        /\ Art(i).format = "ovf" /\ Art(i).keepRegistered = "false" /\ Art(i).skipExport = ""
        /\ Has(log[i], Event("settle", "10s"))

-----------------------------------------------------------------------------
(* C14 *)

\* everything invocation i owns
InvState(i) ==
    <<pc[i], ctx[i], artifact[i], bag[i], stepIdx[i], session[i], log[i], result[i]>>

\* a step that changes anything of invocation i leaves invocation j alone
LeavesAlone(i, j) ==
    InvState(i)' # InvState(i) => InvState(j)' = InvState(j)

\* C14: with two invocations of PostProcess interleaved in any way, every
\* step changes the state of one invocation only (its state bag, session,
\* log and result); an invocation has a seeded state bag and a session
\* exactly when its own connect succeeded; its result is fixed by the "error"
\* key of its own state bag, whatever the other invocation's bag holds; and
\* its session is closed exactly by its own Logout.
C14_IndependentInvocations ==
    /\ [](\A i \in Invocations :
            /\ Connected(i) <=> HasKey(bag[i], "client")
            /\ Connected(i) <=> session[i] # "none"
            /\ session[i] = "closed" <=> Count(log[i], "logout") = 1
            /\ (pc[i] \in {"logout", "returned"} /\ Connected(i)) =>
                   /\ result[i] # <<>>
                   /\ HasKey(bag[i], "error") => Failure(Res(i), bag[i]["error"])
                   /\ ~HasKey(bag[i], "error") => Success(Res(i), Art(i)))
    /\ [][\A i \in Invocations : \A j \in Invocations \ {i} : LeavesAlone(i, j)]_vars

C14_Witness ==
    /\ Invocations = {1, 2}
    /\ Returned(1) /\ Returned(2)
    /\ HasKey(bag[1], "error")
    /\ Failure(Res(1), bag[1]["error"])
    /\ ~HasKey(bag[2], "error")
    /\ Success(Res(2), Art(2))
    /\ session[1] = "closed" /\ session[2] = "closed"

====
